---- MODULE Spec2Model ----
(***************************************************************************)
(* Model of app.py: the ISSN article metadata extractor.  One run of the   *)
(* script body under "if run:" is modelled as a state machine: date        *)
(* validation, identifier merge and normalisation, output setup, the       *)
(* fetch / row-append / rollover loop, the final flush and the download    *)
(* loop.                                                                   *)
(*                                                                         *)
(* Text is modelled as a sequence of one-character strings.  A Python      *)
(* value that may be None is modelled as a sequence of length 0 (None) or  *)
(* 1 (the value).                                                          *)
(***************************************************************************)
EXTENDS Integers, Sequences, FiniteSets, TLC

VARIABLES
    pc,                 \* position of the script
    from_date,          \* st.date_input "From publication date"
    to_date,            \* st.date_input "To publication date"
    manual_issns,       \* st.text_area content
    uploaded_file,      \* st.file_uploader value
    MAX_ROWS_PER_FILE,  \* per-file cap (configuration)
    issns,              \* merged, then normalised identifier list
    idx,                \* position of "for issn in issns"
    articles,           \* records of the current identifier still to be mapped
    completed,          \* identifiers completed
    file_part,          \* part counter
    rows_written,       \* rows appended since the last rollover
    generated_files,    \* paths of the files created, in creation order
    buffer_df,          \* rows of the in-memory frame of the current file
    current_path,       \* path of the current file
    disk,               \* path -> file on disk
    network,            \* history: one entry per requests.get issued
    fetched,            \* history: <<issn, record>> returned to the loop
    downloads,          \* paths offered by st.download_button
    error               \* what stopped the run, "none" otherwise

vars == <<pc, from_date, to_date, manual_issns, uploaded_file,
          MAX_ROWS_PER_FILE, issns, idx, articles, completed, file_part,
          rows_written, generated_files, buffer_df, current_path, disk,
          network, fetched, downloads, error>>

(***************************************************************************)
(* Bounds                                                                  *)
(***************************************************************************)
MaxManualLen == 2       \* longest manual text of a full run
MaxNormLen == 3         \* longest manual text given to the merge alone
MaxTxtLen == 1          \* longest uploaded text file given to the merge alone
MaxCap == 2             \* largest per-file cap
MaxItems == 2           \* most records in one response

(***************************************************************************)
(* Text                                                                    *)
(***************************************************************************)
Alphabet == {"a", "b", " ", ",", "\n"}

\* the characters typed into the text area of a full run
RunAlphabet == {"a", " ", ","}

\* code point of a character
Ord(c) ==
    CASE c = "\n" -> 10
      [] c = " " -> 32
      [] c = "," -> 44
      [] c = "a" -> 97
      [] c = "b" -> 98
      [] c = "n" -> 110

StringsOver(A, n) == UNION {[1..k -> A] : k \in 0..n}

Strings(n) == StringsOver(Alphabet, n)

IsSpace(c) == c \in {" ", "\n"}

RECURSIVE LStrip(_)
LStrip(s) ==
    IF s # <<>> /\ IsSpace(Head(s)) THEN LStrip(Tail(s)) ELSE s

RECURSIVE RStrip(_)
RStrip(s) ==
    IF s # <<>> /\ IsSpace(s[Len(s)]) THEN RStrip(SubSeq(s, 1, Len(s) - 1)) ELSE s

\* str.strip()
Strip(s) == RStrip(LStrip(s))

\* str.replace(",", "\n")
ReplaceComma(s) == [i \in 1..Len(s) |-> IF s[i] = "," THEN "\n" ELSE s[i]]

\* str.splitlines(): lines without their terminators, no final empty line
RECURSIVE SplitLines(_)
SplitLines(s) ==
    IF s = <<>> THEN <<>>
    ELSE IF \E i \in 1..Len(s) : s[i] = "\n"
         THEN LET i == CHOOSE j \in 1..Len(s) :
                           s[j] = "\n" /\ \A k \in 1..(j - 1) : s[k] # "\n"
              IN  <<SubSeq(s, 1, i - 1)>> \o SplitLines(SubSeq(s, i + 1, Len(s)))
         ELSE <<s>>

\* s < t in Python's string order
RECURSIVE StrLess(_, _)
StrLess(s, t) ==
    IF t = <<>> THEN FALSE
    ELSE IF s = <<>> THEN TRUE
    ELSE IF Head(s) = Head(t) THEN StrLess(Tail(s), Tail(t))
    ELSE Ord(Head(s)) < Ord(Head(t))

\* sorted(S) of a set of strings
RECURSIVE Sorted(_)
Sorted(S) ==
    IF S = {} THEN <<>>
    ELSE LET m == CHOOSE x \in S : \A y \in S : x = y \/ StrLess(x, y)
         IN  <<m>> \o Sorted(S \ {m})

Range(s) == {s[i] : i \in 1..Len(s)}

(***************************************************************************)
(* normalize_issns                                                         *)
(***************************************************************************)
\* "if i:" keeps an entry
Truthy(i) == i # <<>>

\* clean: i.strip() of every kept entry, in order
RECURSIVE Clean(_)
Clean(raw) ==
    IF raw = <<>> THEN <<>>
    ELSE IF Truthy(Head(raw)) THEN <<Strip(Head(raw))>> \o Clean(Tail(raw))
    ELSE Clean(Tail(raw))

\* the entries kept, sorted and deduplicated, but not stripped
normalize_issns_unstripped(raw) == Sorted(Range(SelectSeq(raw, Truthy)))

normalize_issns(raw) == Sorted(Range(Clean(raw)))

(***************************************************************************)
(* extract_issns_from_file                                                 *)
(***************************************************************************)
ColumnNames == {"ISSN", "Title"}

\* "issn" in col.lower()
ContainsIssn(name) == name \in {"ISSN", "issn", "Print ISSN", "eIssn"}

\* a cell of a parsed table: NaN or text
NaN == [na |-> TRUE, text |-> <<>>]
TextCell(s) == [na |-> FALSE, text |-> s]

\* astype(str) of one cell
AsStr(cell) == IF cell.na THEN <<"n", "a", "n">> ELSE cell.text

NoFile == [ext |-> "none", content |-> <<>>, columns |-> <<>>]
TxtFile(s) == [ext |-> "txt", content |-> s, columns |-> <<>>]
TableFile(e, cols) == [ext |-> e, content |-> <<>>, columns |-> cols]

\* values of the first column whose name contains "issn"
RECURSIVE FirstIssnColumn(_)
FirstIssnColumn(cols) ==
    IF cols = <<>> THEN <<>>
    ELSE IF ContainsIssn(Head(cols).name)
         THEN [i \in 1..Len(Head(cols).cells) |-> AsStr(Head(cols).cells[i])]
         ELSE FirstIssnColumn(Tail(cols))

extract_issns_from_file(file) ==
    IF file.ext \in {"csv", "xlsx"} THEN FirstIssnColumn(file.columns)
    ELSE IF file.ext = "txt" THEN SplitLines(file.content)
    ELSE <<>>

\* lines 104-112: the merged raw list
MergedIssns(manual, file) ==
    (IF Strip(manual) # <<>> THEN SplitLines(ReplaceComma(manual)) ELSE <<>>)
    \o (IF file.ext # "none" THEN extract_issns_from_file(file) ELSE <<>>)

(***************************************************************************)
(* Records and responses of the metadata API                               *)
(***************************************************************************)
ScalarFields == {"DOI", "volume", "issue", "page", "publisher"}
ListFields == {"title", "container-title"}
Fields == ScalarFields \cup ListFields

\* a key of the record: absent, or present with its value(s)
Absent == [present |-> FALSE, val |-> <<>>]
Present(v) == [present |-> TRUE, val |-> v]

\* every record shape: scalar keys absent or set, list keys absent, empty,
\* or holding one or two strings
AllRecords ==
    {r \in [Fields -> {Absent, Present(<<>>), Present(<<"v">>), Present(<<"v", "w">>)}] :
        \A k \in ScalarFields : r[k] \in {Absent, Present(<<"v">>)}}

\* the records the full run draws responses from
ArtFull == [k \in Fields |-> Present(<<"v">>)]
ArtBare == [k \in Fields |-> Absent]
ArtNoTitle == [ArtFull EXCEPT !["title"] = Present(<<>>)]
Articles == {ArtFull, ArtBare, ArtNoTitle}

ItemLists == UNION {[1..k -> Articles] : k \in 0..MaxItems}

\* requests.get raised, the status is not 200, or the body is malformed
FetchFailed(r) ==
    \/ r.kind # "response"
    \/ r.status # 200
    \/ ~r.json_ok
    \/ ~r.has_message
    \/ ~r.has_items

\* what requests.get did
Response(kind, status, json_ok, has_message, has_items, items) ==
    [kind |-> kind, status |-> status, json_ok |-> json_ok,
     has_message |-> has_message, has_items |-> has_items, items |-> items]

Responses ==
    {Response("connection_error", 0, FALSE, FALSE, FALSE, <<>>),
     Response("timeout", 0, FALSE, FALSE, FALSE, <<>>),
     Response("response", 404, TRUE, TRUE, TRUE, <<ArtFull>>),
     Response("response", 200, FALSE, FALSE, FALSE, <<>>),
     Response("response", 200, TRUE, FALSE, FALSE, <<>>),
     Response("response", 200, TRUE, TRUE, FALSE, <<>>)}
    \cup {Response("response", 200, TRUE, TRUE, TRUE, l) : l \in ItemLists}

\* the status of the response is not looked at
fetch_articles_any_status(r) ==
    IF r.kind # "response" THEN <<>>
    ELSE IF r.json_ok /\ r.has_message /\ r.has_items THEN r.items ELSE <<>>

\* lines 57-63: the list fetch_articles returns for a response
fetch_articles(r) ==
    IF r.kind # "response" THEN <<>>
    ELSE IF r.status = 200
         THEN IF r.json_ok /\ r.has_message /\ r.has_items THEN r.items ELSE <<>>
         ELSE <<>>

(***************************************************************************)
(* Row mapping                                                             *)
(***************************************************************************)
\* str(date)
DateStr(d) == <<"2025-01-01", "2025-01-31">>[d]

\* art.get(k): None when the key is absent
Get(art, k) == IF art[k].present THEN art[k].val ELSE <<>>

\* art.get(k, [""])
GetList(art, k) == IF art[k].present THEN art[k].val ELSE <<"">>

\* building the row raises IndexError: [0] of an empty list
RowRaises(art) == \E k \in ListFields : GetList(art, k) = <<>>

\* lines 158-169: the row for a record
Row(issn, art, f, t) ==
    <<issn,
      Get(art, "DOI"),
      <<GetList(art, "title")[1]>>,
      Get(art, "volume"),
      Get(art, "issue"),
      Get(art, "page"),
      <<GetList(art, "container-title")[1]>>,
      Get(art, "publisher"),
      DateStr(f),
      DateStr(t)>>

(***************************************************************************)
(* Files                                                                   *)
(***************************************************************************)
NoPath == [from |-> "", to |-> "", part |-> 0]

\* line 134
FileName(f, t, part) == [from |-> DateStr(f), to |-> DateStr(t), part |-> part]

NoDisk == [p \in {} |-> 0]

\* open(filename, "w"): create or truncate
OpenForWrite(d, path) ==
    (path :> [header |-> FALSE, rows |-> <<>>, is_open |-> TRUE,
              opens |-> (IF path \in DOMAIN d THEN d[path].opens ELSE 0) + 1,
              closes |-> (IF path \in DOMAIN d THEN d[path].closes ELSE 0),
              reads |-> (IF path \in DOMAIN d THEN d[path].reads ELSE 0)])
    @@ d

\* buffer_df.to_csv(current_file, index=False); current_file.close()
Finalize(d, path, buf) ==
    [d EXCEPT ![path] = [@ EXCEPT !.header = TRUE, !.rows = buf,
                                  !.is_open = FALSE, !.closes = @ + 1]]

\* open(path, "rb")
OpenForRead(d, path) == [d EXCEPT ![path].reads = @ + 1]

\* equal dates rejected too
DateRangeInvalid_strict(f, t) == f >= t

\* line 100
DateRangeInvalid(f, t) == f > t

\* line 173
RolloverDue(rows, cap) == rows >= cap

\* the counter is not incremented
NextPart_same(part) == part

\* line 177
NextPart(part) == part + 1

(***************************************************************************)
(* The run                                                                 *)
(***************************************************************************)
Dates == DOMAIN <<"2025-01-01", "2025-01-31">>
Caps == 1..MaxCap

Column(name, cells) == [name |-> name, cells |-> cells]

\* uploads: none, text files up to n characters, and tables
Files(n) ==
    {NoFile}
    \cup {TxtFile(s) : s \in Strings(n)}
    \cup {TableFile("csv", <<Column("Title", <<TextCell(<<"a">>)>>),
                            Column("ISSN", <<TextCell(<<"b">>), NaN>>)>>),
          TableFile("xlsx", <<Column("ISSN", <<TextCell(<<" ">>)>>)>>),
          TableFile("csv", <<Column("Title", <<TextCell(<<"a">>)>>)>>)}

Idle ==
    /\ issns = <<>> /\ idx = 0 /\ articles = <<>> /\ completed = 0
    /\ file_part = 0 /\ rows_written = 0 /\ generated_files = <<>>
    /\ buffer_df = <<>> /\ current_path = NoPath /\ disk = NoDisk
    /\ network = <<>> /\ fetched = <<>> /\ downloads = <<>> /\ error = "none"

\* the run button was pressed
Init ==
    /\ pc = "validate"
    /\ from_date \in Dates /\ to_date \in Dates
    /\ manual_issns \in StringsOver(RunAlphabet, MaxManualLen)
    /\ uploaded_file \in {NoFile, TxtFile(<<"a">>)}
    /\ MAX_ROWS_PER_FILE \in Caps
    /\ Idle

\* lines 99-102
Validate ==
    /\ pc = "validate"
    /\ IF DateRangeInvalid(from_date, to_date)
       THEN pc' = "stopped" /\ error' = "date"
       ELSE pc' = "collect" /\ error' = error
    /\ UNCHANGED <<from_date, to_date, manual_issns, uploaded_file,
                   MAX_ROWS_PER_FILE, issns, idx, articles, completed,
                   file_part, rows_written, generated_files, buffer_df,
                   current_path, disk, network, fetched, downloads>>

\* lines 104-120
CollectIssns ==
    /\ pc = "collect"
    /\ issns' = normalize_issns(MergedIssns(manual_issns, uploaded_file))
    /\ IF issns' = <<>>
       THEN pc' = "stopped" /\ error' = "no_issns"
       ELSE pc' = "setup" /\ error' = error
    /\ UNCHANGED <<from_date, to_date, manual_issns, uploaded_file,
                   MAX_ROWS_PER_FILE, idx, articles, completed, file_part,
                   rows_written, generated_files, buffer_df, current_path,
                   disk, network, fetched, downloads>>

\* lines 122-151
OutputSetup ==
    /\ pc = "setup"
    /\ completed' = 0
    /\ file_part' = 1
    /\ rows_written' = 0
    /\ current_path' = FileName(from_date, to_date, 1)
    /\ disk' = OpenForWrite(disk, current_path')
    /\ buffer_df' = <<>>
    /\ generated_files' = <<current_path'>>
    /\ idx' = 1
    /\ pc' = "loop"
    /\ UNCHANGED <<from_date, to_date, manual_issns, uploaded_file,
                   MAX_ROWS_PER_FILE, issns, articles, network, fetched,
                   downloads, error>>

\* lines 154-155: the call for the next identifier, answered by r
Fetch(r) ==
    /\ pc = "loop"
    /\ idx <= Len(issns)
    /\ articles' = fetch_articles(r)
    /\ network' = Append(network, [issn |-> issns[idx], failed |-> FetchFailed(r)])
    /\ fetched' = fetched \o [i \in 1..Len(articles') |-> <<issns[idx], articles'[i]>>]
    /\ pc' = "rows"
    /\ UNCHANGED <<from_date, to_date, manual_issns, uploaded_file,
                   MAX_ROWS_PER_FILE, issns, idx, completed, file_part,
                   rows_written, generated_files, buffer_df, current_path,
                   disk, downloads, error>>

\* lines 157-180: one record mapped, appended, and the rollover
AppendRow ==
    /\ pc = "rows"
    /\ articles # <<>>
    /\ LET art == Head(articles)
       IN  IF RowRaises(art)
           THEN /\ pc' = "aborted"
                /\ error' = "IndexError"
                /\ UNCHANGED <<articles, file_part, rows_written,
                               generated_files, buffer_df, current_path, disk>>
           ELSE LET buf == Append(buffer_df, Row(issns[idx], art, from_date, to_date))
                    rows == rows_written + 1
                    path == FileName(from_date, to_date, NextPart(file_part))
                IN  /\ articles' = Tail(articles)
                    /\ UNCHANGED <<pc, error>>
                    /\ IF RolloverDue(rows, MAX_ROWS_PER_FILE)
                       THEN /\ disk' = OpenForWrite(Finalize(disk, current_path, buf), path)
                            /\ file_part' = NextPart(file_part)
                            /\ rows_written' = 0
                            /\ buffer_df' = <<>>
                            /\ current_path' = path
                            /\ generated_files' = Append(generated_files, path)
                       ELSE /\ buffer_df' = buf
                            /\ rows_written' = rows
                            /\ UNCHANGED <<file_part, current_path,
                                           generated_files, disk>>
    /\ UNCHANGED <<from_date, to_date, manual_issns, uploaded_file,
                   MAX_ROWS_PER_FILE, issns, idx, completed, network,
                   fetched, downloads>>

\* lines 182-184: the pause and the progress update
EndIssn ==
    /\ pc = "rows"
    /\ articles = <<>>
    /\ completed' = completed + 1
    /\ idx' = idx + 1
    /\ pc' = "loop"
    /\ UNCHANGED <<from_date, to_date, manual_issns, uploaded_file,
                   MAX_ROWS_PER_FILE, issns, articles, file_part,
                   rows_written, generated_files, buffer_df, current_path,
                   disk, network, fetched, downloads, error>>

\* lines 186-187
FinalFlush ==
    /\ pc = "loop"
    /\ idx > Len(issns)
    /\ disk' = Finalize(disk, current_path, buffer_df)
    /\ pc' = "download"
    /\ UNCHANGED <<from_date, to_date, manual_issns, uploaded_file,
                   MAX_ROWS_PER_FILE, issns, idx, articles, completed,
                   file_part, rows_written, generated_files, buffer_df,
                   current_path, network, fetched, downloads, error>>

\* lines 193-200: one file offered; the script ends after the last one
Download ==
    /\ pc = "download"
    /\ LET path == generated_files[Len(downloads) + 1]
       IN  /\ disk' = OpenForRead(disk, path)
           /\ downloads' = Append(downloads, path)
    /\ pc' = IF Len(downloads') = Len(generated_files) THEN "done" ELSE "download"
    /\ UNCHANGED <<from_date, to_date, manual_issns, uploaded_file,
                   MAX_ROWS_PER_FILE, issns, idx, articles, completed,
                   file_part, rows_written, generated_files, buffer_df,
                   current_path, network, fetched, error>>

Next ==
    \/ Validate
    \/ CollectIssns
    \/ OutputSetup
    \/ \E r \in Responses : Fetch(r)
    \/ AppendRow
    \/ EndIssn
    \/ FinalFlush
    \/ Download

Spec == Init /\ [][Next]_vars

(***************************************************************************)
(* The merge and normaliser alone: the state after a passed validation     *)
(***************************************************************************)
InitNorm ==
    /\ pc = "collect"
    /\ from_date = 1 /\ to_date = 2
    /\ manual_issns \in Strings(MaxNormLen)
    /\ uploaded_file \in Files(MaxTxtLen)
    /\ MAX_ROWS_PER_FILE = 1
    /\ Idle

NextNorm == CollectIssns

SpecNorm == InitNorm /\ [][NextNorm]_vars

(***************************************************************************)
(* The row mapping alone: the state after the first identifier's fetch     *)
(* returned one record, of any shape                                       *)
(***************************************************************************)
InitRow ==
    /\ pc = "rows"
    /\ from_date = 1 /\ to_date = 2
    /\ manual_issns = <<"a">>
    /\ uploaded_file = NoFile
    /\ MAX_ROWS_PER_FILE \in Caps
    /\ issns = <<manual_issns>>
    /\ idx = 1
    /\ articles \in {<<r>> : r \in AllRecords}
    /\ completed = 0
    /\ file_part = 1
    /\ rows_written = 0
    /\ current_path = FileName(from_date, to_date, 1)
    /\ generated_files = <<current_path>>
    /\ buffer_df = <<>>
    /\ disk = OpenForWrite(NoDisk, current_path)
    /\ network = <<[issn |-> issns[1], failed |-> FALSE]>>
    /\ fetched = <<<<issns[1], articles[1]>>>>
    /\ downloads = <<>>
    /\ error = "none"

NextRow == AppendRow

SpecRow == InitRow /\ [][NextRow]_vars

(***************************************************************************)
(* Quantities the properties speak of                                      *)
(***************************************************************************)
\* R: records returned by the fetches of the run
R == Len(fetched)

Ceil(n, d) == (n + d - 1) \div d

\* data rows of the files on disk, concatenated in part-number order
RECURSIVE RowsOfParts(_)
RowsOfParts(n) ==
    IF n = 0 THEN <<>>
    ELSE RowsOfParts(n - 1) \o disk[generated_files[n]].rows

DiskRows == RowsOfParts(Len(generated_files))

\* an empty or null cell
EmptyCell(c) == c \in {<<>>, <<"">>}

ScalarColumn(k) ==
    CASE k = "DOI" -> 2 [] k = "volume" -> 4 [] k = "issue" -> 5
      [] k = "page" -> 6 [] k = "publisher" -> 8

ListColumn(k) == CASE k = "title" -> 3 [] k = "container-title" -> 7

\* row is the output row of record art fetched for issn in window f..t
RowIsFor(row, issn, art, f, t) ==
    /\ Len(row) = 10
    /\ row[1] = issn
    /\ \A k \in ScalarFields :
          IF art[k].present THEN row[ScalarColumn(k)] = art[k].val
          ELSE EmptyCell(row[ScalarColumn(k)])
    /\ \A k \in ListFields :
          IF art[k].present /\ art[k].val # <<>>
          THEN row[ListColumn(k)] = <<art[k].val[1]>>
          ELSE EmptyCell(row[ListColumn(k)])
    /\ row[9] = DateStr(f)
    /\ row[10] = DateStr(t)

\* rows is one row per entry of recs, in order
RowsAreFor(rows, recs) ==
    /\ Len(rows) = Len(recs)
    /\ \A i \in 1..Len(recs) :
          RowIsFor(rows[i], recs[i][1], recs[i][2], from_date, to_date)

RunEnded == pc \in {"done", "aborted"}

\* rows mapped so far: those of the finalized files, then the open frame
MappedRows ==
    DiskRows \o (IF current_path \in DOMAIN disk /\ disk[current_path].is_open
                 THEN buffer_df ELSE <<>>)

\* records the row loop has gone past
MappedRecords == SubSeq(fetched, 1, Len(fetched) - Len(articles))

\* the raw entries some non-blank identifier can come from
NonBlank(raw) == {i \in 1..Len(raw) : Strip(raw[i]) # <<>>}

(***************************************************************************)
(* Properties                                                              *)
(***************************************************************************)

\* C1: at run end the number of files created is ceil(R / C), or 1 when
\* R = 0, for every record total R and cap C, exact multiples included.
C1_FileCountIsCeil ==
    pc = "done" =>
        Len(generated_files) =
            IF R = 0 THEN 1 ELSE Ceil(R, MAX_ROWS_PER_FILE)

\* C2: at run end every file holds between 1 and MAX_ROWS_PER_FILE data
\* rows; a file may hold zero rows only as the single file of a run whose
\* fetches returned no record.
C2_FileRowBounds ==
    pc = "done" =>
        \A i \in 1..Len(generated_files) :
            LET n == Len(disk[generated_files[i]].rows)
            IN  /\ n <= MAX_ROWS_PER_FILE
                /\ n >= 1 \/ (R = 0 /\ Len(generated_files) = 1)

\* C3: once the run is over, the data rows of the output files, concatenated
\* in part-number order, are one row per fetched record, in identifier order
\* and in response order, each with its identifier and the run's dates.
C3_NoRecordLost ==
    RunEnded =>
        /\ \A i \in 1..Len(network) : network[i].issn = issns[i]
        /\ RowsAreFor(DiskRows, fetched)

\* C4: the files created carry the part numbers 1, 2, ..., n in creation
\* order, the counter is the number of the newest file, and no file name is
\* used twice.
C4_PartNumbers ==
    /\ \A i \in 1..Len(generated_files) :
          generated_files[i] = FileName(from_date, to_date, i)
    /\ \A i, j \in 1..Len(generated_files) :
          i # j => generated_files[i] # generated_files[j]
    /\ generated_files # <<>> =>
          /\ file_part = Len(generated_files)
          /\ current_path = generated_files[Len(generated_files)]

C4_Witness == pc = "done" /\ Len(generated_files) >= 3

\* C5: a fetch answered by a transport error, a timeout, a non-200 status or
\* a malformed 200 body hands the loop the empty list without stopping the
\* run; an identifier with nothing left to map is then counted as completed
\* and the loop moves on, its next call being for the next identifier.
C5_FailedFetchContinues ==
    [][/\ \A r \in Responses :
             FetchFailed(r) /\ Fetch(r) =>
                 /\ articles' = <<>>
                 /\ fetched' = fetched
                 /\ pc' = "rows"
                 /\ error' = "none"
       /\ pc = "rows" /\ articles = <<>> =>
             /\ completed' = completed + 1
             /\ idx' = idx + 1
             /\ pc' = "loop"
             /\ error' = "none"
       /\ pc = "loop" /\ idx <= Len(issns) =>
             /\ Len(network') = Len(network) + 1
             /\ network'[Len(network')].issn = issns[idx]
             /\ Len(network') = completed + 1]_vars

C5_Witness ==
    /\ Len(network) >= 2
    /\ network[1].failed
    /\ completed >= 1
    /\ error = "none"

\* C6: with from_date > to_date the run stops on the date error with no
\* network call issued and no file created; with from_date <= to_date the
\* validation does not stop the run.
C6_DateValidation ==
    /\ from_date > to_date =>
          /\ pc \in {"validate", "stopped"}
          /\ pc = "stopped" => error = "date"
          /\ network = <<>>
          /\ generated_files = <<>>
          /\ disk = NoDisk
    /\ from_date <= to_date =>
          /\ error # "date"
          /\ pc = "stopped" => error = "no_issns"

C6_Witness ==
    /\ from_date > to_date
    /\ pc = "stopped"
    /\ error = "date"

\* C7: the normaliser's output holds each distinct non-blank trimmed
\* identifier of the merged input exactly once, holds nothing twice, and
\* holds only trimmed input entries.
C7_DistinctTrimmedOnce ==
    pc # "collect" =>
        LET raw == MergedIssns(manual_issns, uploaded_file)
        IN  /\ \A i \in NonBlank(raw) :
                  Cardinality({j \in 1..Len(issns) : issns[j] = Strip(raw[i])}) = 1
            /\ \A j, k \in 1..Len(issns) : j # k => issns[j] # issns[k]
            /\ \A j \in 1..Len(issns) :
                  \E i \in 1..Len(raw) : issns[j] = Strip(raw[i])

C7_Witness ==
    /\ pc = "setup"
    /\ LET raw == MergedIssns(manual_issns, uploaded_file)
       IN  \E i, j \in NonBlank(raw) :
               raw[i] # raw[j] /\ Strip(raw[i]) = Strip(raw[j])

\* C8: every identifier the normaliser produces, and every identifier a
\* fetch is issued for, is non-empty after trimming; when the merged input
\* has no non-blank entry the run stops on the error with no fetch.
C8_IdentifiersNonEmpty ==
    /\ \A i \in 1..Len(issns) : Strip(issns[i]) # <<>>
    /\ \A i \in 1..Len(network) : Strip(network[i].issn) # <<>>
    /\ (/\ pc \notin {"validate", "collect"}
        /\ error # "date"
        /\ NonBlank(MergedIssns(manual_issns, uploaded_file)) = {}) =>
          /\ pc = "stopped"
          /\ error = "no_issns"
          /\ network = <<>>

\* C9: in a run that reaches the loop every file is opened for writing
\* once, at most one file is open at a time and it is the current one, a
\* file is closed at most once, once the run is over every file has been
\* written and closed exactly once, and no file is offered for download
\* before all are closed.
C9_FileLifecycle ==
    /\ DOMAIN disk = Range(generated_files)
    /\ \A p \in DOMAIN disk :
          /\ disk[p].opens = 1
          /\ disk[p].closes <= 1
          /\ disk[p].is_open <=> disk[p].closes = 0
          /\ disk[p].is_open => p = current_path
          /\ disk[p].closes = 1 => disk[p].header
    /\ RunEnded => \A p \in DOMAIN disk : disk[p].closes = 1
    /\ downloads # <<>> => \A p \in DOMAIN disk : disk[p].closes = 1

\* C10: mapping a fetched record never stops the run and appends exactly
\* one row, an absent key and an empty title or container-title list giving
\* an empty or null cell.
C10_RowMappingTotal ==
    /\ error # "IndexError"
    /\ RowsAreFor(MappedRows, MappedRecords)

\* Checked beside the claims: what the code does hold.  At run end the file
\* count is floor(R / C) + 1.
FileCountOfCompletedRun ==
    pc = "done" => Len(generated_files) = (R \div MAX_ROWS_PER_FILE) + 1

\* The rows on disk are the fetched records whenever the loop ran to its end.
CompletedRunKeepsRecords ==
    pc \in {"download", "done"} => RowsAreFor(DiskRows, fetched)

\* The file lifecycle holds in every state but the aborted one.
LifecycleUnlessAborted == pc # "aborted" => C9_FileLifecycle

====
